---- MODULE Spec2Model ----
(***************************************************************************)
(* A model of outpost_config's InMemoryProvider                            *)
(* (src/outpost_config/src/provider/in_memory.rs): a HashMap<String,String>*)
(* behind an RwLock, with the typed get/put/has/delete/list operations of  *)
(* ConfigProvider and the load/save operations of FileAwareConfigProvider. *)
(* Callers are threads; every operation is cut into the steps at which     *)
(* another thread can interleave: lock acquisitions and file system calls. *)
(***************************************************************************)
EXTENDS Naturals, Sequences, FiniteSets

\* ------------------------------------------------------------------ bounds

\* Number of concurrent caller threads.
NumThreads == 2

\* Number of InMemoryProvider instances (each owns its store and its lock).
NumProviders == 2

\* Number of operations invoked in one run of concurrent callers, and in one
\* run of calls made one after the other.
MaxCalls == 2

MaxSeqCalls == 3

\* Number of operations invoked in one run of concurrent loads and reads.
MaxReadCalls == 3

Threads == 1..NumThreads

Providers == 1..NumProviders

Keys == {"a", "b"}

\* ------------------------------------------------------------------ values

\* A typed value: an i64, an f64 (finite n.0, or non-finite), or a map whose
\* keys are tuples (a type that satisfies the bounds of put but has no JSON
\* form).
IntV(n) == [ty |-> "i64", n |-> n, fin |-> TRUE]

F64V(n) == [ty |-> "f64", n |-> n, fin |-> TRUE]

InfV == [ty |-> "f64", n |-> 0, fin |-> FALSE]

TupleKeyMapV == [ty |-> "map", n |-> 0, fin |-> TRUE]

NoVal == [ty |-> "none", n |-> 0, fin |-> TRUE]

\* The values callers put, and the types callers ask get for.
PutValues == {IntV(1), IntV(2), InfV, TupleKeyMapV}

GetTypes == {"i64", "f64"}

\* A missing entry of the HashMap.
Absent == "<absent>"

Digits(n) == CASE n = 1 -> "1" [] n = 2 -> "2" [] OTHER -> "0"

\* An encoder that writes a map it cannot represent as an empty object.
to_string_lossy(value) ==
  CASE value.ty = "i64" -> [ok |-> TRUE, text |-> Digits(value.n)]
    [] value.ty = "f64" /\ value.fin ->
         [ok |-> TRUE, text |-> IF value.n = 1 THEN "1.0" ELSE "2.0"]
    [] OTHER -> [ok |-> TRUE, text |-> "null"]

\* serde_json::to_string(&value): an integer prints as its digits, a finite
\* float with its fraction, a non-finite float as null; a map with non-string
\* keys is an error ("key must be a string").
to_string(value) ==
  CASE value.ty = "i64" -> [ok |-> TRUE, text |-> Digits(value.n)]
    [] value.ty = "f64" /\ value.fin ->
         [ok |-> TRUE, text |-> IF value.n = 1 THEN "1.0" ELSE "2.0"]
    [] value.ty = "f64" /\ ~value.fin -> [ok |-> TRUE, text |-> "null"]
    [] OTHER -> [ok |-> FALSE, text |-> Absent]

\* serde_json::from_str::<T>(raw): an integer literal parses as i64 and as
\* f64, a literal with a fraction only as f64, null as neither.
from_str(raw, ty) ==
  CASE raw = "1" -> [ok |-> TRUE, val |-> IF ty = "i64" THEN IntV(1) ELSE F64V(1)]
    [] raw = "2" -> [ok |-> TRUE, val |-> IF ty = "i64" THEN IntV(2) ELSE F64V(2)]
    [] raw = "1.0" /\ ty = "f64" -> [ok |-> TRUE, val |-> F64V(1)]
    [] raw = "2.0" /\ ty = "f64" -> [ok |-> TRUE, val |-> F64V(2)]
    [] OTHER -> [ok |-> FALSE, val |-> NoVal]

\* The texts a store can hold: what put encodes and what a file brings.
Texts == {"1", "2", "null"}

EmptyStore == [k \in Keys |-> Absent]

\* ------------------------------------------------------------- file system

\* A path: a file stem and an extension, all in one directory.
Paths == {[stem |-> "cfg", ext |-> "json"], [stem |-> "cfg", ext |-> "tmp"]}

\* PathBuf::set_extension: the extension is replaced, the stem is kept.
set_extension(p, e) == [p EXCEPT !.ext = e]

\* save's tmp_path.
TmpPathOf(p) == set_extension(p, "tmp")

FileNames == Paths \cup {TmpPathOf(p) : p \in Paths}

\* One inode per name and one per open file always suffice.
Inodes == 1..(Cardinality(FileNames) + NumThreads)

\* File content is a sequence of tokens: the braces of a JSON object, one
\* token per "key": "value" member, a run of zero bytes (a hole left by a
\* write past the end of a truncated file), or text that is not JSON.
Tok(t) == [t |-> t, k |-> "", v |-> ""]

Entry(k, v) == [t |-> "entry", k |-> k, v |-> v]

\* A file written by someone else that holds the mapping {"b": "2"}, and one
\* that holds no JSON object.
ExtFile == <<Tok("open"), Entry("b", "2"), Tok("close")>>

JunkFile == <<Tok("junk")>>

\* A file written by someone else that holds the mapping {"b": "1.0"}: the
\* text of a float, which is no integer.
FloatFile == <<Tok("open"), Entry("b", "1.0"), Tok("close")>>

Max(S) == CHOOSE x \in S : \A y \in S : y <= x

Min(S) == CHOOSE x \in S : \A y \in S : x <= y

\* A decoder that takes the members it finds and skips everything else.
DecodeLenient(c) ==
  LET at(k) == {i \in DOMAIN c : c[i].t = "entry" /\ c[i].k = k}
  IN  [ok |-> TRUE,
       map |-> [k \in Keys |-> IF at(k) = {} THEN Absent ELSE c[Max(at(k))].v]]

\* serde_json::from_reader::<HashMap<String, String>>: the payload decodes
\* when it is one object of string members and nothing else; of two members
\* with one key the later one stays.
DecodeMapping(c) ==
  LET n == Len(c)
      wellFormed == /\ n >= 2
                    /\ c[1].t = "open"
                    /\ c[n].t = "close"
                    /\ \A i \in 2..(n - 1) : c[i].t = "entry"
      at(k) == {i \in 2..(n - 1) : c[i].k = k}
  IN  IF wellFormed
      THEN [ok |-> TRUE,
            map |-> [k \in Keys |-> IF at(k) = {} THEN Absent ELSE c[Max(at(k))].v]]
      ELSE [ok |-> FALSE, map |-> EmptyStore]

\* The keys present in a mapping.
KeysOf(m) == {k \in Keys : m[k] # Absent}

\* write(2) of one token at a file offset: inside the file it overwrites, at
\* the end it appends, past the end it leaves a hole of zero bytes.
WriteAt(c, off, tok) ==
  IF off < Len(c)
  THEN [c EXCEPT ![off + 1] = tok]
  ELSE c \o [i \in 1..(off - Len(c)) |-> Tok("hole")] \o <<tok>>

\* File content as an observer of a path sees it.
NoFile == [exists |-> FALSE, data |-> <<>>]

NoPath == [stem |-> "", ext |-> ""]

\* -------------------------------------------------------------------- state

VARIABLES
  store,      \* store[p]: provider p's HashMap, key -> encoded text or Absent
  readers,    \* readers[p]: the threads holding a read guard of p's RwLock
  writer,     \* writer[p]: the thread holding the write guard of p's RwLock, or 0
  poisoned,   \* poisoned[p]: p's RwLock is poisoned (a writer panicked)
  dirExists,  \* whether the parent directory of the paths exists
  fs,         \* fs[name]: the inode a file name refers to, or 0
  inode,      \* inode[i]: the content of inode i
  th,         \* th[t]: the call thread t is running, its position and locals
  ret,        \* the call that returned last, with its result, until the next call
  budget,     \* the number of operations the callers may still invoke
  live,       \* the providers that have been constructed
  hist,       \* hist[p][k]: the last completed mutation of key k (history)
  committed,  \* committed[p]: p's mapping after its last completed write (history)
  saved       \* saved[name]: the mapping of the save that produced the file (history)

vars == <<store, readers, writer, poisoned, dirExists, fs, inode, th, ret, budget, live, hist,
          committed, saved>>

\* A thread that runs no call.
Idle ==
  [pc |-> "idle", op |-> "none", prov |-> 0, key |-> "", val |-> NoVal, ty |-> "",
   text |-> Absent, path |-> NoPath, fd |-> 0, wrote |-> <<>>, values |-> EmptyStore,
   snap |-> EmptyStore, preFile |-> NoFile]

\* No call has returned yet.
NoReturn ==
  [op |-> "none", prov |-> 0, key |-> "", val |-> NoVal, ty |-> "", path |-> NoPath,
   snap |-> EmptyStore, preFile |-> NoFile,
   res |-> "", rval |-> NoVal, rkeys |-> <<>>, rbool |-> FALSE]

NoHist == [kind |-> "none", val |-> NoVal]

\* No save produced the file of this name.
NotSaved == [valid |-> FALSE, by |-> 0, map |-> EmptyStore]

\* What a reader of the path sees now.
ContentAt(p) == IF fs[p] = 0 THEN NoFile ELSE [exists |-> TRUE, data |-> inode[fs[p]]]

\* The inode a file name has in the initial state.
InitInode(p) == IF p.ext = "json" THEN 1 ELSE 2

\* InMemoryProvider::new() for every provider: empty stores, free locks. The
\* directory exists or not (dirs); in it, each destination is missing or holds
\* a file someone else wrote (files), and no temporary file is left over.
InitState(dirs, files) ==
  /\ store = [p \in Providers |-> EmptyStore]
  /\ readers = [p \in Providers |-> {}]
  /\ writer = [p \in Providers |-> 0]
  /\ poisoned = [p \in Providers |-> FALSE]
  /\ dirExists \in dirs
  /\ \E c \in [FileNames -> {<<>>} \cup files] :
       /\ ~dirExists => \A p \in FileNames : c[p] = <<>>
       /\ \A p \in FileNames : p.ext = "tmp" => c[p] = <<>>
       /\ fs = [p \in FileNames |-> IF c[p] = <<>> THEN 0 ELSE InitInode(p)]
       /\ inode = [i \in Inodes |->
                     IF \E p \in FileNames : c[p] # <<>> /\ InitInode(p) = i
                     THEN c[CHOOSE p \in FileNames : InitInode(p) = i]
                     ELSE <<>>]
  /\ th = [t \in Threads |-> Idle]
  /\ ret = NoReturn
  /\ live = {1}
  /\ hist = [p \in Providers |-> [k \in Keys |-> NoHist]]
  /\ committed = [p \in Providers |-> EmptyStore]
  /\ saved = [p \in FileNames |-> NotSaved]

\* Concurrent callers of the first provider; the directory may be missing.
Init == InitState(BOOLEAN, {ExtFile}) /\ budget = MaxCalls

\* Calls made one after the other; the destination may hold a file that is no
\* mapping.
InitSeq == InitState({TRUE}, {ExtFile, JunkFile}) /\ budget = MaxSeqCalls

\* ------------------------------------------------------------------ RwLock

\* A read lock that does not wait for the writer.
CanReadIgnoringWriter(p) == p \in Providers

\* RwLock::read succeeds while no writer holds the lock.
CanRead(p) == writer[p] = 0

\* A write lock that does not wait for the readers.
CanWriteIgnoringReaders(p) == writer[p] = 0

\* RwLock::write succeeds while nobody holds the lock.
CanWrite(p) == writer[p] = 0 /\ readers[p] = {}

\* The inodes still referred to by a name or an open file, and the inode
\* table with every other inode cleared.
Referenced(f, thr) == ({f[p] : p \in FileNames} \cup {thr[t].fd : t \in Threads}) \ {0}

Gc(ino, f, thr) == [i \in Inodes |-> IF i \in Referenced(f, thr) THEN ino[i] ELSE <<>>]

\* A thread is inside a call.
Running(t) == th[t].pc # "idle"

\* A thread may invoke an operation. Idle threads are interchangeable: the
\* call goes to the first of them.
CanCall(t) ==
  /\ ~Running(t)
  /\ \A u \in Threads : u < t => Running(u)
  /\ budget > 0

\* A call is invoked: one less to go, and the result of the call before it is
\* no longer looked at.
Called ==
  /\ budget' = budget - 1
  /\ ret' = NoReturn

\* The locals of a call that starts; snap is the mapping the call found (at
\* its start, and for load and save again when they get their lock).
Start(op, p, first) == [Idle EXCEPT !.pc = first, !.op = op, !.prov = p, !.snap = store[p]]

\* What the caller of a call with locals c gets back, beside the arguments.
ResultOf(c, kind) ==
  [NoReturn EXCEPT !.op = c.op, !.prov = c.prov, !.key = c.key, !.val = c.val,
                   !.ty = c.ty, !.path = c.path, !.snap = c.snap,
                   !.preFile = c.preFile, !.res = kind]

Result(t, kind) == ResultOf(th[t], kind)

\* The call of thread t returns r; its locals are dropped.
Returns(t, r) ==
  /\ th' = [th EXCEPT ![t] = Idle]
  /\ ret' = r

\* --------------------------------------------------------------------- get

CallGet(t) ==
  /\ CanCall(t)
  /\ \E p \in live, k \in Keys, ty \in GetTypes :
       th' = [th EXCEPT ![t] = [Start("get", p, "GetLock") EXCEPT !.key = k, !.ty = ty]]
  /\ Called
  /\ UNCHANGED <<store, readers, writer, dirExists, fs, inode, live, poisoned, hist, committed, saved>>

\* let read_guard = self.store.read().unwrap();
GetLock(t) ==
  /\ th[t].pc = "GetLock"
  /\ CanRead(th[t].prov)
  /\ ~poisoned[th[t].prov]
  /\ readers' = [readers EXCEPT ![th[t].prov] = @ \cup {t}]
  /\ th' = [th EXCEPT ![t].pc = "GetRead"]
  /\ UNCHANGED <<store, writer, dirExists, fs, inode, ret, budget, live, poisoned, hist, committed, saved>>

\* A get that takes a text it cannot decode for a missing entry.
GetResultSwallowsDecodeError(m, k, ty) ==
  IF m[k] # Absent /\ from_str(m[k], ty).ok
  THEN [res |-> "Ok", rval |-> from_str(m[k], ty).val]
  ELSE [res |-> "NotFound", rval |-> NoVal]

\* The result of get on a mapping: NotFound for a missing key, Other for
\* text that does not decode to the type asked for, else the decoded value.
GetResult(m, k, ty) ==
  IF m[k] = Absent
  THEN [res |-> "NotFound", rval |-> NoVal]
  ELSE IF from_str(m[k], ty).ok
       THEN [res |-> "Ok", rval |-> from_str(m[k], ty).val]
       ELSE [res |-> "Other", rval |-> NoVal]

\* The lookup, the decoding and the return, which drops the guard.
GetRead(t) ==
  /\ th[t].pc = "GetRead"
  /\ LET r == GetResult(store[th[t].prov], th[t].key, th[t].ty)
     IN  Returns(t, [Result(t, r.res) EXCEPT !.rval = r.rval])
  /\ readers' = [readers EXCEPT ![th[t].prov] = @ \ {t}]
  /\ UNCHANGED <<store, writer, dirExists, fs, inode, budget, live, poisoned, hist, committed, saved>>

\* --------------------------------------------------------------------- has

CallHas(t) ==
  /\ CanCall(t)
  /\ \E p \in live, k \in Keys :
       th' = [th EXCEPT ![t] = [Start("has", p, "HasLock") EXCEPT !.key = k]]
  /\ Called
  /\ UNCHANGED <<store, readers, writer, dirExists, fs, inode, live, poisoned, hist, committed, saved>>

HasLock(t) ==
  /\ th[t].pc = "HasLock"
  /\ CanRead(th[t].prov)
  /\ ~poisoned[th[t].prov]
  /\ readers' = [readers EXCEPT ![th[t].prov] = @ \cup {t}]
  /\ th' = [th EXCEPT ![t].pc = "HasRead"]
  /\ UNCHANGED <<store, writer, dirExists, fs, inode, ret, budget, live, poisoned, hist, committed, saved>>

\* read_guard.contains_key(key)
HasResult(m, k) == m[k] # Absent

HasRead(t) ==
  /\ th[t].pc = "HasRead"
  /\ Returns(t, [Result(t, "Ok") EXCEPT !.rbool = HasResult(store[th[t].prov], th[t].key)])
  /\ readers' = [readers EXCEPT ![th[t].prov] = @ \ {t}]
  /\ UNCHANGED <<store, writer, dirExists, fs, inode, budget, live, poisoned, hist, committed, saved>>

\* -------------------------------------------------------------------- list

CallList(t) ==
  /\ CanCall(t)
  /\ \E p \in live : th' = [th EXCEPT ![t] = Start("list", p, "ListLock")]
  /\ Called
  /\ UNCHANGED <<store, readers, writer, dirExists, fs, inode, live, poisoned, hist, committed, saved>>

ListLock(t) ==
  /\ th[t].pc = "ListLock"
  /\ CanRead(th[t].prov)
  /\ ~poisoned[th[t].prov]
  /\ readers' = [readers EXCEPT ![th[t].prov] = @ \cup {t}]
  /\ th' = [th EXCEPT ![t].pc = "ListRead"]
  /\ UNCHANGED <<store, writer, dirExists, fs, inode, ret, budget, live, poisoned, hist, committed, saved>>

\* A list that also names the keys whose entry is gone.
ListEveryKey(m) ==
  {s \in [1..Cardinality(DOMAIN m) -> DOMAIN m] : \A k \in DOMAIN m : \E i \in DOMAIN s : s[i] = k}

\* read_guard.keys().cloned().collect(): every key of the mapping once, in
\* the HashMap's iteration order, which is any order.
ListResults(m) ==
  {s \in [1..Cardinality(KeysOf(m)) -> KeysOf(m)] : \A k \in KeysOf(m) : \E i \in DOMAIN s : s[i] = k}

ListRead(t) ==
  /\ th[t].pc = "ListRead"
  /\ \E s \in ListResults(store[th[t].prov]) :
       Returns(t, [Result(t, "Ok") EXCEPT !.rkeys = s])
  /\ readers' = [readers EXCEPT ![th[t].prov] = @ \ {t}]
  /\ UNCHANGED <<store, writer, dirExists, fs, inode, budget, live, poisoned, hist, committed, saved>>

\* --------------------------------------------------------------------- put

\* The call and serde_json::to_string(&value): a value that does not encode
\* ends the call with Other before the lock is asked for.
CallPut(t) ==
  /\ CanCall(t)
  /\ \E p \in live, k \in Keys, v \in PutValues :
       LET e == to_string(v)
           c == [Start("put", p, "PutLock") EXCEPT !.key = k, !.val = v, !.text = e.text]
       IN  IF e.ok
           THEN th' = [th EXCEPT ![t] = c] /\ ret' = NoReturn
           ELSE th' = th /\ ret' = ResultOf(c, "Other")
  /\ budget' = budget - 1
  /\ UNCHANGED <<store, readers, writer, dirExists, fs, inode, live, poisoned, hist, committed, saved>>

\* let mut write_guard = self.store.write().unwrap();
PutLock(t) ==
  /\ th[t].pc = "PutLock"
  /\ CanWrite(th[t].prov)
  /\ ~poisoned[th[t].prov]
  /\ writer' = [writer EXCEPT ![th[t].prov] = t]
  /\ th' = [th EXCEPT ![t].pc = "PutInsert"]
  /\ UNCHANGED <<store, readers, dirExists, fs, inode, ret, budget, live, poisoned, hist, committed, saved>>

\* An insert that keeps the value of a key that is present.
InsertIfMissing(m, k, text) == IF m[k] = Absent THEN [m EXCEPT ![k] = text] ELSE m

\* HashMap::insert: the entry for the key is set, every other entry is kept.
Insert(m, k, text) == [m EXCEPT ![k] = text]

\* write_guard.insert(key.to_string(), serialized); Ok(()) drops the guard.
PutInsert(t) ==
  /\ th[t].pc = "PutInsert"
  /\ LET p == th[t].prov
         m == Insert(store[p], th[t].key, th[t].text)
     IN  /\ store' = [store EXCEPT ![p] = m]
         /\ committed' = [committed EXCEPT ![p] = m]
         /\ hist' = [hist EXCEPT ![p][th[t].key] = [kind |-> "put", val |-> th[t].val]]
         /\ writer' = [writer EXCEPT ![p] = 0]
  /\ Returns(t, Result(t, "Ok"))
  /\ UNCHANGED <<readers, dirExists, fs, inode, budget, live, poisoned, saved>>

\* ------------------------------------------------------------------ delete

CallDelete(t) ==
  /\ CanCall(t)
  /\ \E p \in live, k \in Keys :
       th' = [th EXCEPT ![t] = [Start("delete", p, "DeleteLock") EXCEPT !.key = k]]
  /\ Called
  /\ UNCHANGED <<store, readers, writer, dirExists, fs, inode, live, poisoned, hist, committed, saved>>

DeleteLock(t) ==
  /\ th[t].pc = "DeleteLock"
  /\ CanWrite(th[t].prov)
  /\ ~poisoned[th[t].prov]
  /\ writer' = [writer EXCEPT ![th[t].prov] = t]
  /\ th' = [th EXCEPT ![t].pc = "DeleteRemove"]
  /\ UNCHANGED <<store, readers, dirExists, fs, inode, ret, budget, live, poisoned, hist, committed, saved>>

\* A remove that clears the whole map.
RemoveAll(m, k) == [j \in DOMAIN m |-> Absent]

\* A remove that leaves the entry in place.
RemoveNothing(m, k) == [j \in DOMAIN m |-> m[j]]

\* HashMap::remove: the entry for the key goes, every other entry is kept.
Remove(m, k) == [m EXCEPT ![k] = Absent]

\* write_guard.remove(key); Ok(()) drops the guard.
DeleteRemove(t) ==
  /\ th[t].pc = "DeleteRemove"
  /\ LET p == th[t].prov
         m == Remove(store[p], th[t].key)
     IN  /\ store' = [store EXCEPT ![p] = m]
         /\ committed' = [committed EXCEPT ![p] = m]
         /\ hist' = [hist EXCEPT ![p][th[t].key] = [kind |-> "delete", val |-> NoVal]]
         /\ writer' = [writer EXCEPT ![p] = 0]
  /\ Returns(t, Result(t, "Ok"))
  /\ UNCHANGED <<readers, dirExists, fs, inode, budget, live, poisoned, saved>>

\* -------------------------------------------------------------------- load

\* The call and File::open(path): an open file, or an error (always when
\* there is no file; any other error of the file system is possible too).
CallLoad(t) ==
  /\ CanCall(t)
  /\ \E p \in live, path \in Paths :
       LET c == [Start("load", p, "LoadLock") EXCEPT
                   !.path = path, !.preFile = ContentAt(path)]
       IN  \/ /\ fs[path] # 0
              /\ th' = [th EXCEPT ![t] = [c EXCEPT !.fd = fs[path]]]
              /\ ret' = NoReturn
           \/ /\ th' = th
              /\ ret' = ResultOf(c, "Other")
  /\ budget' = budget - 1
  /\ UNCHANGED <<store, readers, writer, dirExists, fs, inode, live, poisoned, hist, committed, saved>>

\* let mut write_guard = self.store.write().unwrap();
LoadLock(t) ==
  /\ th[t].pc = "LoadLock"
  /\ CanWrite(th[t].prov)
  /\ ~poisoned[th[t].prov]
  /\ writer' = [writer EXCEPT ![th[t].prov] = t]
  /\ th' = [th EXCEPT ![t].pc = "LoadDecode", ![t].snap = store[th[t].prov]]
  /\ UNCHANGED <<store, readers, dirExists, fs, inode, ret, budget, live, poisoned, hist, committed, saved>>

\* serde_json::from_reader(file), under the write guard: the whole payload is
\* decoded before any entry is applied, and the file is closed. A payload that
\* does not decode ends the call with Other, which drops the guard.
LoadDecode(t) ==
  /\ th[t].pc = "LoadDecode"
  /\ LET d == DecodeMapping(inode[th[t].fd])
     IN  IF d.ok
         THEN /\ th' = [th EXCEPT ![t].pc = "LoadInsert", ![t].fd = 0, ![t].values = d.map]
              /\ UNCHANGED <<writer, ret>>
         ELSE /\ Returns(t, Result(t, "Other"))
              /\ writer' = [writer EXCEPT ![th[t].prov] = 0]
  /\ inode' = Gc(inode, fs, th')
  /\ UNCHANGED <<store, readers, dirExists, fs, budget, live, poisoned, hist, committed, saved>>

\* for (k, v) in values { write_guard.insert(k, v); }: one entry per step, in
\* the HashMap's iteration order; after the last one Ok(()) drops the guard.
LoadInsert(t) ==
  /\ th[t].pc = "LoadInsert"
  /\ LET p == th[t].prov
     IN  \/ /\ \E k \in KeysOf(th[t].values) :
                 /\ store' = [store EXCEPT ![p] = Insert(@, k, th[t].values[k])]
                 /\ hist' = [hist EXCEPT ![p][k] = [kind |-> "load", val |-> NoVal]]
                 /\ th' = [th EXCEPT ![t].values[k] = Absent]
            /\ UNCHANGED <<writer, committed, ret>>
         \/ /\ KeysOf(th[t].values) = {}
            /\ writer' = [writer EXCEPT ![p] = 0]
            /\ committed' = [committed EXCEPT ![p] = store[p]]
            /\ Returns(t, Result(t, "Ok"))
            /\ UNCHANGED <<store, hist>>
  /\ UNCHANGED <<readers, dirExists, fs, inode, budget, live, poisoned, saved>>

\* -------------------------------------------------------------------- save

\* The call and fs::create_dir_all(parent): the directory exists afterwards,
\* or (when it had to be created) the call ends with Other.
CallSave(t) ==
  /\ CanCall(t)
  /\ \E p \in live, path \in Paths :
       LET c == [Start("save", p, "SaveCreate") EXCEPT
                   !.path = path, !.preFile = ContentAt(path)]
       IN  \/ /\ dirExists' = TRUE
              /\ th' = [th EXCEPT ![t] = c]
              /\ ret' = NoReturn
           \/ /\ ~dirExists
              /\ UNCHANGED <<dirExists, th>>
              /\ ret' = ResultOf(c, "Other")
  /\ budget' = budget - 1
  /\ UNCHANGED <<store, readers, writer, fs, inode, live, poisoned, hist, committed, saved>>

\* An inode no name and no open file refers to.
FreeInode == Min(Inodes \ Referenced(fs, th))

\* File::create(&tmp_path): an existing file is opened and truncated, a
\* missing one is created empty; or the call ends with Other.
SaveCreate(t) ==
  /\ th[t].pc = "SaveCreate"
  /\ LET tmp == TmpPathOf(th[t].path)
         i == IF fs[tmp] # 0 THEN fs[tmp] ELSE FreeInode
     IN  \/ /\ fs' = [fs EXCEPT ![tmp] = i]
            /\ inode' = [inode EXCEPT ![i] = <<>>]
            /\ saved' = [saved EXCEPT ![tmp] = NotSaved]
            /\ th' = [th EXCEPT ![t].pc = "SaveLock", ![t].fd = i]
            /\ UNCHANGED ret
         \/ /\ Returns(t, Result(t, "Other"))
            /\ UNCHANGED <<fs, inode, saved>>
  /\ UNCHANGED <<store, readers, writer, dirExists, budget, live, poisoned, hist, committed>>

\* let read_guard = self.store.read().unwrap();
SaveLock(t) ==
  /\ th[t].pc = "SaveLock"
  /\ CanRead(th[t].prov)
  /\ ~poisoned[th[t].prov]
  /\ readers' = [readers EXCEPT ![th[t].prov] = @ \cup {t}]
  /\ th' = [th EXCEPT ![t].pc = "SaveWrite", ![t].snap = store[th[t].prov]]
  /\ UNCHANGED <<store, writer, dirExists, fs, inode, ret, budget, live, poisoned, hist, committed, saved>>

\* The keys of the entries a save has written so far.
WrittenKeys(w) == {w[i].k : i \in {j \in DOMAIN w : w[j].t = "entry"}}

\* An encoder that writes each key in the place of its value.
NextTokensKeyAsValue(m, w) ==
  IF w = <<>> THEN {Tok("open")}
  ELSE IF KeysOf(m) \ WrittenKeys(w) # {}
       THEN {Entry(k, k) : k \in KeysOf(m) \ WrittenKeys(w)}
       ELSE {Tok("close")}

\* What serde_json::to_writer_pretty writes next, having written w, from the
\* mapping m as it is now: the opening brace, then an entry not written yet
\* (in the HashMap's iteration order, which is any order), then the closing
\* brace.
NextTokens(m, w) ==
  IF w = <<>> THEN {Tok("open")}
  ELSE IF KeysOf(m) \ WrittenKeys(w) # {}
       THEN {Entry(k, m[k]) : k \in KeysOf(m) \ WrittenKeys(w)}
       ELSE {Tok("close")}

\* An end of save that leaves the read guard behind.
SaveReturnKeepsGuard(t, kind) ==
  /\ Returns(t, Result(t, kind))
  /\ readers' = readers

\* The end of a save: both guards of the function are dropped, the read guard
\* and the open temporary file.
SaveReturn(t, kind) ==
  /\ Returns(t, Result(t, kind))
  /\ readers' = [readers EXCEPT ![th[t].prov] = @ \ {t}]

\* One write of to_writer_pretty into the temporary file, at the offset of
\* the open file; or an I/O error, which ends the call with Other.
SaveWrite(t) ==
  /\ th[t].pc = "SaveWrite"
  /\ \/ /\ \E tok \in NextTokens(store[th[t].prov], th[t].wrote) :
             /\ inode' = [inode EXCEPT ![th[t].fd] = WriteAt(@, Len(th[t].wrote), tok)]
             /\ th' = [th EXCEPT ![t].wrote = Append(@, tok),
                                 ![t].pc = IF tok.t = "close" THEN "SaveRename" ELSE "SaveWrite"]
        /\ UNCHANGED <<readers, ret>>
     \/ /\ SaveReturn(t, "Other")
        /\ inode' = Gc(inode, fs, th')
  /\ UNCHANGED <<store, writer, dirExists, fs, budget, live, poisoned, hist, committed, saved>>

\* std::fs::rename(&tmp_path, path): the destination name now refers to the
\* temporary file and the temporary name is gone (nothing changes when both
\* are one name); or an error, always when the temporary name is gone.
SaveRename(t) ==
  /\ th[t].pc = "SaveRename"
  /\ LET tmp == TmpPathOf(th[t].path)
     IN  \/ /\ fs[tmp] # 0
            /\ fs' = [fs EXCEPT ![tmp] = 0, ![th[t].path] = fs[tmp]]
            /\ saved' = [saved EXCEPT ![tmp] = NotSaved,
                                      ![th[t].path] = [valid |-> TRUE, by |-> th[t].prov,
                                                       map |-> th[t].snap]]
            /\ SaveReturn(t, "Ok")
         \/ /\ SaveReturn(t, "Other")
            /\ UNCHANGED <<fs, saved>>
  /\ inode' = Gc(inode, fs', th')
  /\ UNCHANGED <<store, writer, dirExists, budget, live, poisoned, hist, committed>>

\* ---------------------------------------------------------------- behaviour

\* InMemoryProvider::new(): one more provider, its store empty and its lock
\* free. Providers nobody has written to are interchangeable, so a further one
\* is constructed once each of the others has been written to.
NewProvider ==
  /\ live # Providers
  /\ \A p \in live : \E k \in Keys : hist[p][k] # NoHist
  /\ live' = live \cup {Cardinality(live) + 1}
  /\ UNCHANGED <<store, readers, writer, poisoned, dirExists, fs, inode, th, ret,
                 budget, hist, committed, saved>>

Invoke(t) ==
  \/ CallGet(t) \/ CallHas(t) \/ CallList(t) \/ CallPut(t) \/ CallDelete(t)
  \/ CallLoad(t) \/ CallSave(t)

Step(t) ==
  \/ GetLock(t) \/ GetRead(t) \/ HasLock(t) \/ HasRead(t) \/ ListLock(t) \/ ListRead(t)
  \/ PutLock(t) \/ PutInsert(t) \/ DeleteLock(t) \/ DeleteRemove(t)
  \/ LoadLock(t) \/ LoadDecode(t) \/ LoadInsert(t)
  \/ SaveCreate(t) \/ SaveLock(t) \/ SaveWrite(t) \/ SaveRename(t)

\* Any number of threads call one provider concurrently.
Next == \E t \in Threads : Invoke(t) \/ Step(t)

Spec == Init /\ [][Next]_vars

\* Concurrent callers of the first provider, the destination holding a file,
\* under a scheduler that does not stop while some call can take a step (file
\* I/O calls return, a free lock is granted).
InitLive ==
  /\ InitState({TRUE}, {ExtFile})
  /\ \A p \in Paths : p.ext # "tmp" => fs[p] # 0
  /\ budget = MaxCalls

SpecLive == InitLive /\ [][Next]_vars /\ WF_vars(\E t \in Threads : Step(t))

\* No call is running.
Quiet == \A t \in Threads : ~Running(t)

\* One call at a time, on any provider: a call starts only when no other is
\* running.
NextSeq == (Quiet /\ NewProvider) \/ \E t \in Threads : (Quiet /\ Invoke(t)) \/ Step(t)

SpecSeq == InitSeq /\ [][NextSeq]_vars

\* Concurrent loads, gets, has and lists on the first provider; the
\* destination may hold a file of float texts.
InitReaders == InitState({TRUE}, {FloatFile}) /\ budget = MaxReadCalls

NextReaders ==
  \E t \in Threads :
    \/ CallLoad(t) \/ LoadLock(t) \/ LoadDecode(t) \/ LoadInsert(t)
    \/ CallGet(t) \/ GetLock(t) \/ GetRead(t)
    \/ CallHas(t) \/ HasLock(t) \/ HasRead(t)
    \/ CallList(t) \/ ListLock(t) \/ ListRead(t)

SpecReaders == InitReaders /\ [][NextReaders]_vars

\* The positions at which a call asks for a read guard, and for the write
\* guard.
ReadLockPcs == {"GetLock", "HasLock", "ListLock", "SaveLock"}

WriteLockPcs == {"PutLock", "DeleteLock", "LoadLock"}

\* An allocation of write_guard.insert (the table's growth, key.to_string())
\* fails in a build that unwinds on it: the thread panics inside put or inside
\* load's merge, the entry is not inserted, and the write guard, dropped
\* during the unwinding, leaves the lock poisoned.
InsertPanics(t) ==
  /\ th[t].pc \in {"PutInsert", "LoadInsert"}
  /\ writer' = [writer EXCEPT ![th[t].prov] = 0]
  /\ poisoned' = [poisoned EXCEPT ![th[t].prov] = TRUE]
  /\ Returns(t, Result(t, "Panic"))
  /\ UNCHANGED <<store, readers, dirExists, fs, inode, budget, live, hist, committed, saved>>

\* self.store.read().unwrap() and self.store.write().unwrap() on a poisoned
\* lock: the lock is acquired, read() or write() returns Err(PoisonError) and
\* unwrap panics; the guard inside the error and the call's open file are
\* dropped during the unwinding.
LockPoisoned(t) ==
  /\ th[t].pc \in ReadLockPcs \cup WriteLockPcs
  /\ poisoned[th[t].prov]
  /\ IF th[t].pc \in ReadLockPcs THEN CanRead(th[t].prov) ELSE CanWrite(th[t].prov)
  /\ Returns(t, Result(t, "Panic"))
  /\ inode' = Gc(inode, fs, th')
  /\ UNCHANGED <<store, readers, writer, poisoned, dirExists, fs, budget, live, hist,
                 committed, saved>>

\* Calls made one after the other, any of which may be struck by a failing
\* allocation while it holds the write guard.
NextPanic == NextSeq \/ \E t \in Threads : InsertPanics(t) \/ LockPoisoned(t)

SpecPanic == InitSeq /\ [][NextPanic]_vars

\* ------------------------------------------------------------------- claims

\* The positions at which a thread holds the write guard, and those at which
\* it holds a read guard.
WriteSections == {"PutInsert", "DeleteRemove", "LoadDecode", "LoadInsert"}

ReadSections == {"GetRead", "HasRead", "ListRead", "SaveWrite", "SaveRename"}

\* C1: while a save runs (wherever an interruption would stop it) and after a
\* save that returned Other, the file at its destination is what it was when
\* the save was called: the same content, or still no file.
C1_SaveFailureKeepsDestination ==
  /\ \A t \in Threads : th[t].op = "save" => ContentAt(th[t].path) = th[t].preFile
  /\ (ret.op = "save" /\ ret.res = "Other") => ContentAt(ret.path) = ret.preFile

\* Content that is one whole JSON object with each key once.
IsEncoding(c) ==
  /\ DecodeMapping(c).ok
  /\ Len(c) = Cardinality(KeysOf(DecodeMapping(c).map)) + 2

\* C2: whatever saves, loads and other calls interleave, a destination that
\* is not itself a temporary name holds either the file that was there before
\* any save or the whole encoding of a mapping, never part of one.
C2_ReaderSeesWholeFile ==
  \A p \in Paths :
    (p.ext # "tmp" /\ fs[p] # 0) =>
      (inode[fs[p]] \in {ExtFile, JunkFile} \/ IsEncoding(inode[fs[p]]))

\* C3: from the moment a save has its read guard until it returns, it holds
\* the guard, no writer holds the lock or is inside a put, delete or load, and
\* the store is the mapping the save found; what it has written is part of
\* that mapping, and once the closing brace is written, all of it.
C3_SaveWritesOneSnapshot ==
  \A t \in Threads :
    th[t].pc \in {"SaveWrite", "SaveRename"} =>
      LET p == th[t].prov
          w == th[t].wrote
      IN  /\ t \in readers[p]
          /\ writer[p] = 0
          /\ \A u \in Threads : th[u].prov = p => th[u].pc \notin WriteSections
          /\ store[p] = th[t].snap
          /\ \A i \in DOMAIN w : w[i].t = "entry" => th[t].snap[w[i].k] = w[i].v
          /\ th[t].pc = "SaveRename" =>
               /\ DecodeMapping(w) = [ok |-> TRUE, map |-> th[t].snap]
               /\ IsEncoding(w)

\* A save has started writing while a put waits for the write lock.
C3_Witness ==
  \E t, u \in Threads :
    /\ th[t].pc = "SaveWrite" /\ th[t].wrote # <<>>
    /\ th[u].pc = "PutLock" /\ th[u].prov = th[t].prov

\* C4: of the threads working on one provider, at most one is inside a put, a
\* delete or a load's decode-and-merge, and then none is inside a get, has,
\* list or save; and whoever is inside one of those reads sees the mapping
\* left by the last completed write, never a load half merged.
C4_WritersRunAlone ==
  \A p \in Providers :
    LET W == {t \in Threads : th[t].prov = p /\ th[t].pc \in WriteSections}
        R == {t \in Threads : th[t].prov = p /\ th[t].pc \in ReadSections}
    IN  /\ Cardinality(W) <= 1
        /\ W # {} => R = {}
        /\ R # {} => store[p] = committed[p]

\* A load has merged an entry and not yet returned, while a get waits.
C4_Witness ==
  \E t, u \in Threads :
    /\ th[t].pc = "LoadInsert" /\ store[th[t].prov] # committed[th[t].prov]
    /\ th[u].pc = "GetLock" /\ th[u].prov = th[t].prov

\* C5: a get of a key whose last mutation is a put of value v, asked for v's
\* type, returns v.
C5_PutThenGetReturnsValue ==
  (/\ ret.op = "get"
   /\ hist[ret.prov][ret.key].kind = "put"
   /\ hist[ret.prov][ret.key].val.ty = ret.ty)
  => (ret.res = "Ok" /\ ret.rval = hist[ret.prov][ret.key].val)

\* C6: for a key never put or loaded, or deleted last, has returns false and
\* get fails with NotFound.
C6_AbsentKeyNotFound ==
  (ret.op \in {"get", "has"} /\ hist[ret.prov][ret.key].kind \in {"none", "delete"})
  => /\ ret.op = "has" => (ret.res = "Ok" /\ ret.rbool = FALSE)
     /\ ret.op = "get" => ret.res = "NotFound"

\* A get of a key that was put and then deleted returned NotFound.
C6_Witness ==
  /\ ret.op = "get" /\ ret.res = "NotFound"
  /\ hist[ret.prov][ret.key].kind = "delete"
  /\ ret.snap = store[ret.prov]
  /\ \E k \in Keys : hist[ret.prov][k].kind = "put"

\* C7: list returns each key for which has is true once, and no other key.
C7_ListMatchesHas ==
  ret.op = "list" =>
    LET present == {k \in Keys : HasResult(store[ret.prov], k)}
    IN  /\ ret.res = "Ok"
        /\ {ret.rkeys[i] : i \in DOMAIN ret.rkeys} = present
        /\ Len(ret.rkeys) = Cardinality(present)

\* A list returned a key while another key had been deleted.
C7_Witness ==
  /\ ret.op = "list" /\ Len(ret.rkeys) = 1
  /\ \E k \in Keys : hist[ret.prov][k].kind = "delete"

\* The mapping in the file a load was given.
FileMap(r) == DecodeMapping(r.preFile.data).map

\* C8: after a load that returned Ok, every key of the file has the file's
\* value and every other key has the value it had before.
C8_LoadMerges ==
  (ret.op = "load" /\ ret.res = "Ok") =>
    \A k \in Keys :
      store[ret.prov][k] = IF FileMap(ret)[k] # Absent THEN FileMap(ret)[k] ELSE ret.snap[k]

\* A load brought a key, overwrote nothing of another key that was there.
C8_Witness ==
  /\ ret.op = "load" /\ ret.res = "Ok"
  /\ \E k \in Keys : FileMap(ret)[k] # Absent
  /\ \E k \in Keys : FileMap(ret)[k] = Absent /\ ret.snap[k] # Absent

\* The text of one JSON object whose members are strings: an opening brace,
\* members, a closing brace, and nothing before, between or after.
IsObjectText(c) ==
  /\ Len(c) >= 2
  /\ c[1].t = "open"
  /\ c[Len(c)].t = "close"
  /\ \A i \in 2..(Len(c) - 1) : c[i].t = "entry"

\* C9: a load of a missing file or of a payload that is no mapping returns
\* Other, and after a load that returned Other the store is as it was.
C9_FailedLoadKeepsStore ==
  ret.op = "load" =>
    /\ (~ret.preFile.exists \/ ~IsObjectText(ret.preFile.data)) => ret.res = "Other"
    /\ ret.res = "Other" => store[ret.prov] = ret.snap

\* A load of a file that is no mapping failed on a store that has entries.
C9_Witness ==
  /\ ret.op = "load" /\ ret.res = "Other"
  /\ ret.preFile.exists /\ ret.preFile.data # <<>>
  /\ ret.snap # EmptyStore

\* C10: a load, into a provider that had no entries, of a file a save produced
\* gives the mapping the saved provider had: the same keys from list and the
\* same result of get for every key and type.
C10_SaveLoadRoundTrip ==
  (/\ ret.op = "load" /\ ret.res = "Ok"
   /\ ret.snap = EmptyStore
   /\ saved[ret.path].valid)
  => LET m == saved[ret.path].map
     IN  /\ store[ret.prov] = m
         /\ ListResults(store[ret.prov]) = ListResults(m)
         /\ \A k \in Keys, ty \in GetTypes :
              GetResult(store[ret.prov], k, ty) = GetResult(m, k, ty)

\* A fresh provider loaded the file another provider saved its entries to.
C10_Witness ==
  /\ ret.op = "load" /\ ret.res = "Ok"
  /\ saved[ret.path].valid /\ saved[ret.path].by # ret.prov
  /\ saved[ret.path].map # EmptyStore
  /\ \A k \in Keys : hist[ret.prov][k].kind \in {"none", "load"}
  /\ ret.snap = EmptyStore

\* C11: a put of a value that has no encoding (a map whose keys are not
\* strings) returns Other, never asks for the write lock and leaves the store
\* as it was; a put of any other value inserts its text while it holds the
\* write lock alone, returns Ok, and the key then holds that text.
C11_PutEncodeFailureKeepsStore ==
  /\ \A t \in Threads :
       th[t].op = "put" =>
         /\ th[t].val # TupleKeyMapV
         /\ th[t].pc = "PutInsert" =>
              (writer[th[t].prov] = t /\ readers[th[t].prov] = {})
  /\ (ret.op = "put" /\ ret.val = TupleKeyMapV) =>
       /\ ret.res = "Other"
       /\ store[ret.prov] = ret.snap
       /\ writer[ret.prov] = 0
  /\ (ret.op = "put" /\ ret.val # TupleKeyMapV) =>
       /\ ret.res = "Ok"
       /\ store[ret.prov][ret.key] = to_string(ret.val).text
       /\ \A k \in Keys \ {ret.key} : store[ret.prov][k] = ret.snap[k]

\* A put of a value without encoding failed on a key that holds a value.
C11_Witness ==
  /\ ret.op = "put" /\ ret.val = TupleKeyMapV /\ ret.res = "Other"
  /\ ret.snap[ret.key] # Absent

\* C12: a call that ends while the lock of its provider is poisoned ends by
\* returning Other to its caller (it fails to acquire the lock, or failed
\* before it asked), and no call ends otherwise than by returning Ok, NotFound
\* or Other, save the one an allocation failure struck.
C12_PoisonedLockReturnsOther ==
  [][\A t \in Threads :
       (Running(t) /\ th'[t].pc = "idle") =>
         /\ poisoned[th[t].prov] => ret'.res = "Other"
         /\ poisoned'[th[t].prov] = poisoned[th[t].prov] =>
              ret'.res \in {"Ok", "NotFound", "Other"}]_vars

\* C13: a delete returns Ok, never NotFound; afterwards the key is absent and
\* every other key is as it was, so a delete of a key that was absent (never
\* put, or deleted by the call before) leaves the whole store as it was.
C13_DeleteIdempotent ==
  ret.op = "delete" =>
    /\ ret.res = "Ok"
    /\ store[ret.prov][ret.key] = Absent
    /\ \A k \in Keys \ {ret.key} : store[ret.prov][k] = ret.snap[k]
    /\ ret.snap[ret.key] = Absent => store[ret.prov] = ret.snap

\* A delete of an absent key returned on a store that holds another key.
C13_Witness ==
  /\ ret.op = "delete" /\ ret.res = "Ok"
  /\ ret.snap[ret.key] = Absent
  /\ ret.snap # EmptyStore

\* C14: at most one put on a provider holds the write lock, and it holds it
\* from the acquisition to its insert, so puts complete in the order in which
\* they acquire the lock; a key whose last completed mutation is a put holds
\* exactly the text of that put's value, whatever other puts ran concurrently.
C14_LastPutWins ==
  /\ \A t, u \in Threads :
       (th[t].pc = "PutInsert" /\ th[u].pc = "PutInsert" /\ th[t].prov = th[u].prov)
         => t = u
  /\ \A p \in Providers, k \in Keys :
       hist[p][k].kind = "put" => store[p][k] = to_string(hist[p][k].val).text

\* Of two puts of different values to one key called while the key was
\* absent, one has completed and the other has the lock and inserts next.
C14_Witness ==
  \E u \in Threads :
    /\ th[u].pc = "PutInsert"
    /\ th[u].snap[th[u].key] = Absent
    /\ hist[th[u].prov][th[u].key].kind = "put"
    /\ store[th[u].prov][th[u].key] # th[u].text

\* The positions inside the read guard of get, has and list.
LookupSections == {"GetRead", "HasRead", "ListRead"}

\* A get, has or list has returned and the store is the one it was called on.
ReadOfStaticStore ==
  /\ ret.op \in {"get", "has", "list"}
  /\ store[ret.prov] = ret.snap

\* What a get, has or list returns on the mapping it was called on: has tells
\* the presence of the key, list gives each present key once, get gives
\* NotFound for a missing key and else the decoded text, or Other when the
\* text does not decode as the type asked for.
ReturnsAsAlone ==
  LET m == ret.snap
      present == {k \in Keys : m[k] # Absent}
  IN  /\ ret.op = "has" => (ret.res = "Ok" /\ ret.rbool = (ret.key \in present))
      /\ ret.op = "list" =>
           /\ ret.res = "Ok"
           /\ {ret.rkeys[i] : i \in DOMAIN ret.rkeys} = present
           /\ Len(ret.rkeys) = Cardinality(present)
      /\ ret.op = "get" =>
           /\ ret.key \notin present => ret.res = "NotFound"
           /\ (ret.key \in present /\ from_str(m[ret.key], ret.ty).ok) =>
                (ret.res = "Ok" /\ ret.rval = from_str(m[ret.key], ret.ty).val)
           /\ (ret.key \in present /\ ~from_str(m[ret.key], ret.ty).ok) =>
                ret.res = "Other"

\* Whoever is inside the read guard of a get, has or list holds the lock in
\* the shared mode, with no writer.
ReadersShareLock ==
  \A t \in Threads :
    th[t].pc \in LookupSections => (t \in readers[th[t].prov] /\ writer[th[t].prov] = 0)

\* C15 as stated: concurrent gets, has and lists of a store nobody mutates
\* share the read mode, each returns what it returns when run alone, and none
\* fails except a get of an absent key, with NotFound.
C15_ConcurrentReadsNoError ==
  /\ ReadersShareLock
  /\ ReadOfStaticStore =>
       /\ ReturnsAsAlone
       /\ ret.res = "Ok" \/ (ret.op = "get" /\ ret.res = "NotFound"
                                /\ ret.snap[ret.key] = Absent)

\* C15 amended: the same, where a get may also fail with Other, when the text
\* of its key does not decode as the type asked for.
C15_ConcurrentReadsAgree ==
  /\ ReadersShareLock
  /\ ReadOfStaticStore =>
       /\ ReturnsAsAlone
       /\ \/ ret.res = "Ok"
          \/ ret.op = "get" /\ ret.res = "NotFound" /\ ret.snap[ret.key] = Absent
          \/ /\ ret.op = "get" /\ ret.res = "Other"
             /\ ret.snap[ret.key] # Absent
             /\ ~from_str(ret.snap[ret.key], ret.ty).ok

\* Every thread is inside the read guard of a get, has or list of one
\* provider, whose store holds a key, and a get is among them.
C15_Witness ==
  /\ \A t \in Threads : th[t].pc \in LookupSections /\ th[t].prov = 1
  /\ \E t \in Threads : th[t].pc = "GetRead" /\ store[1][th[t].key] # Absent
  /\ readers[1] = Threads

\* C16: the temporary file a save has created has another name than the
\* destination and is another file, and its creation left the destination as
\* it was when the save was called: the same content, or still no file.
C16_TempFileIsNotDestination ==
  \A t \in Threads :
    th[t].pc = "SaveLock" =>
      /\ TmpPathOf(th[t].path) # th[t].path
      /\ fs[th[t].path] # th[t].fd
      /\ ContentAt(th[t].path) = th[t].preFile

\* C17: no thread holds a store lock at a file I/O call other than the writes
\* of save: a load that reads and decodes its file does not hold the write
\* lock, and a save that creates its temporary file or renames it does not
\* hold the read lock.
C17_NoLockAcrossFileIO ==
  \A t \in Threads :
    /\ th[t].pc = "LoadDecode" => writer[th[t].prov] # t
    /\ th[t].pc \in {"SaveCreate", "SaveRename"} => t \notin readers[th[t].prov]

\* A lock is held only by a thread inside a call on that provider, past the
\* acquisition, and never in both modes: a thread holds at most one lock and a
\* thread that has returned holds none.
HoldsOnlyItsLock ==
  \A t \in Threads, p \in Providers :
    /\ t \in readers[p] => (th[t].prov = p /\ th[t].pc \in ReadSections /\ writer[p] # t)
    /\ writer[p] = t => (th[t].prov = p /\ th[t].pc \in WriteSections /\ readers[p] = {})

\* While a call is running, some running call can take a step.
NoDeadlock == (\E t \in Threads : Running(t)) => \E t \in Threads : ENABLED Step(t)

\* C18: under fair scheduling every call that was invoked returns, so that
\* from some moment on no call is running; a thread holds at most one lock,
\* only inside its call, and no state in which calls are running is a
\* deadlock.
C18_EveryCallCompletes ==
  /\ [](HoldsOnlyItsLock /\ NoDeadlock)
  /\ <>[]Quiet

\* A delete waits for the lock that a load holds while it decodes its file.
C18_Witness ==
  \E t, u \in Threads :
    /\ th[t].pc = "DeleteLock" /\ th[u].pc = "LoadDecode"
    /\ th[u].prov = th[t].prov /\ writer[th[t].prov] = u

\* What a reader of the path sees after the step.
ContentAfter(p) == IF fs'[p] = 0 THEN NoFile ELSE [exists |-> TRUE, data |-> inode'[fs'[p]]]

\* C19: a save's steps come in the order create-directories, create the
\* temporary file, take the read lock, write, rename, none of them twice; the
\* temporary file holds the whole payload when the rename is attempted; a
\* step that fails ends the save with Other; and the file at the destination
\* of a running save changes only in that save's rename, which returns Ok.
C19_SaveStepsInOrder ==
  [][\A t \in Threads :
       th[t].op = "save" =>
         /\ <<th[t].pc, th'[t].pc>> \in
              {<<"SaveCreate", "SaveLock">>, <<"SaveLock", "SaveWrite">>,
               <<"SaveWrite", "SaveWrite">>, <<"SaveWrite", "SaveRename">>,
               <<"SaveCreate", "idle">>, <<"SaveWrite", "idle">>,
               <<"SaveRename", "idle">>,
               <<"SaveCreate", "SaveCreate">>, <<"SaveLock", "SaveLock">>,
               <<"SaveRename", "SaveRename">>}
         /\ th'[t].pc = "SaveRename" =>
              (IsObjectText(inode'[th'[t].fd]) /\ inode'[th'[t].fd] = th'[t].wrote)
         /\ (th'[t].pc = "idle" /\ th[t].pc # "SaveRename") => ret'.res = "Other"
         /\ ContentAfter(th[t].path) # ContentAt(th[t].path) =>
              (th[t].pc = "SaveRename" /\ th'[t].pc = "idle" /\ ret'.res = "Ok")]_vars

\* C20: no step of a get, has, list or save changes a store, nor does a call
\* that fails before its first step; a step of a put or a delete changes
\* nothing but the entry of its key in its provider.
C20_FrameOfStore ==
  [][/\ \A t \in Threads :
          th'[t] # th[t] =>
            LET c == IF Running(t) THEN th[t] ELSE th'[t]
            IN  /\ c.op \in {"get", "has", "list", "save"} => store' = store
                /\ c.op \in {"put", "delete"} =>
                     \A p \in Providers, k \in Keys :
                       (p # c.prov \/ k # c.key) => store'[p][k] = store[p][k]
     /\ th' = th => store' = store]_vars

\* A put returned Ok on a store that holds another key.
C20_Witness ==
  /\ ret.op = "put" /\ ret.res = "Ok"
  /\ \E k \in Keys \ {ret.key} : ret.snap[k] # Absent /\ store[ret.prov][k] = ret.snap[k]

====
